---- MODULE Spec2Model ----
(***************************************************************************)
(* Model of the lyric-clipboard orchestrator: the polling loop             *)
(* (Orchestrator.Start / tick / Stop), the lyrics fetcher with its cache,  *)
(* the LRC parser and the timeline lookup (SyncedLyrics.GetLineAtTime).    *)
(*                                                                         *)
(* Durations are counted in centiseconds (10 ms), the resolution of an LRC *)
(* timestamp.  A *LyricLine into a timeline is modelled by the index of    *)
(* the line in Lines, 0 standing for nil.                                  *)
(***************************************************************************)
EXTENDS Integers, Sequences, FiniteSets, TLC

VARIABLES
    currentSongKey,   \* Orchestrator.currentSongKey
    currentLyrics,    \* Orchestrator.currentLyrics (Nil or the Lines of a SyncedLyrics)
    lastLyricText,    \* Orchestrator.lastLyricText
    lyricOffset,      \* Orchestrator.lyricOffset
    updateClipboard,  \* Orchestrator.updateClipboard
    stopChan,         \* Orchestrator.stopChan: "open" or "closed"
    detectorClosed,   \* detector.Close has been called
    cache,            \* Fetcher.cache: cache key -> Nil or Lines
    pc,               \* position of the Start goroutine
    crashed,          \* "none", or the run-time panic that ended the process
    tickAfterStop,    \* history: a tick began although stopChan was closed
    lastTick,         \* history: what the most recent tick saw and did (emitted:
                      \* lastLyricText was assigned; notified: the status
                      \* callback, if one is set, was called; cleanRun: since
                      \* the song was first seen every tick ran with the
                      \* clipboard enabled and no write failed)
    lkLines,          \* lookup harness: the timeline
    lkPos,            \* lookup harness: the position
    lkResult,         \* lookup harness: the index GetLineAtTime returned
    lkDone,           \* lookup harness: GetLineAtTime has been applied
    rcArch,           \* setter race: the word size of the build target, 32 or 64
    rcMem,            \* setter race: the two words of o.lyricOffset in memory
    rcFlag,           \* setter race: o.updateClipboard in memory
    rcCall,           \* setter race: the setter call of the tray goroutine
    rcTick,           \* setter race: the tick's reads of the two fields
    scStep,           \* scenario: the number of ticks of the stream done
    scLog,            \* scenario: what each of these ticks emitted
    psDoc,            \* parser harness: the LRC document
    psResult,         \* parser harness: what ParseLRC returned (Nil: an error)
    psPc,             \* parser harness: "start", "parsed" once ParseLRC has
                      \* returned, "looked" once GetLineAtTime has
    psPos,            \* parser harness: the position looked up afterwards
    psLine,           \* parser harness: the index GetLineAtTime returned for it
    cfFile,           \* configuration: the file at the path given to Load
    cfPc,             \* configuration: "start", "loaded" once Load has returned
    cfConfig,         \* configuration: what Load returned (NilConfig: an error)
    chMu,             \* fetcher: f.mu, its writer ("none" or a caller) and its readers
    chMap,            \* fetcher: f.cache, cache key -> Nil or the timeline stored
    chWriting,        \* fetcher: a map assignment of f.cache is in progress
    chCall,           \* fetcher: each goroutine's position in FetchLyrics or ClearCache and its locals
    chFault,          \* fetcher: "none", or the fatal error of the Go runtime
    lpTimer,          \* loop: the ticks waiting in ticker.C, a channel of capacity 1
    lpPhase,          \* loop: the position inside tick, "none" outside
    lpRunning,        \* loop: history, the executions of tick in progress
    lpSample,         \* loop: the tick's songInfo
    lpLine,           \* loop: the tick's currentLine
    lpTimedOut,       \* loop: history, the client's timeout ended the last fetch
    stPc,             \* status: the tray goroutine's position in GetCurrentStatus
    stKey,            \* status: the song key read for the first argument of Sprintf
    stOut,            \* status: the string the last call returned, "" before the first
    trChecked,        \* tray: clipboardItem.Checked()
    trTitle,          \* tray: the title of clipboardItem
    trOffsetItems,    \* tray: the offsets whose submenu item is checked
    trCurrentOffset,  \* tray: SystemTray.currentOffset
    trClicks          \* tray: history, the clicks on clipboardItem handled so far

vars == <<currentSongKey, currentLyrics, lastLyricText, lyricOffset,
          updateClipboard, stopChan, detectorClosed, cache,
          pc, crashed, tickAfterStop, lastTick,
          lkLines, lkPos, lkResult, lkDone,
          rcArch, rcMem, rcFlag, rcCall, rcTick,
          scStep, scLog,
          psDoc, psResult, psPc, psPos, psLine,
          cfFile, cfPc, cfConfig,
          chMu, chMap, chWriting, chCall, chFault,
          lpTimer, lpPhase, lpRunning, lpSample, lpLine, lpTimedOut,
          stPc, stKey, stOut,
          trChecked, trTitle, trOffsetItems, trCurrentOffset, trClicks>>

orchVars == <<currentSongKey, currentLyrics, lastLyricText, lyricOffset,
              updateClipboard, stopChan, detectorClosed, cache,
              pc, crashed, tickAfterStop, lastTick>>

lkVars == <<lkLines, lkPos, lkResult, lkDone>>

rcVars == <<rcArch, rcMem, rcFlag, rcCall, rcTick>>

scVars == <<scStep, scLog>>

psVars == <<psDoc, psResult, psPc, psPos, psLine>>

cfVars == <<cfFile, cfPc, cfConfig>>

chVars == <<chMu, chMap, chWriting, chCall, chFault>>

lpVars == <<lpTimer, lpPhase, lpRunning, lpSample, lpLine, lpTimedOut,
          stPc, stKey, stOut>>

trVars == <<trChecked, trTitle, trOffsetItems, trCurrentOffset, trClicks>>

\* The variables of the harnesses, which the orchestrator leaves alone.
harnessVars == <<lkVars, rcVars, scVars, psVars, cfVars, chVars, lpVars, trVars>>

\* A *SyncedLyrics: the nil pointer, or a pointer to a value with its Lines.
Nil == [isNil |-> TRUE, Lines |-> <<>>]

SyncedLyrics(lines) == [isNil |-> FALSE, Lines |-> lines]

-----------------------------------------------------------------------------
(* Timelines *)

LyricLine(t, s) == [Time |-> t, Text |-> s]

\* The scan of GetLineAtTime: i is the loop index, cur the index of the line
\* currentLine points to (0 for nil).
RECURSIVE ScanLines(_, _, _, _)
ScanLines(lines, position, i, cur) ==
    IF i > Len(lines) THEN cur
    ELSE IF lines[i].Time <= position
         THEN ScanLines(lines, position, i + 1, i)
         ELSE cur

\* GetLineAtTime with the comparison of the scan made strict.
RECURSIVE ScanLinesStrict(_, _, _, _)
ScanLinesStrict(lines, position, i, cur) ==
    IF i > Len(lines) THEN cur
    ELSE IF lines[i].Time < position
         THEN ScanLinesStrict(lines, position, i + 1, i)
         ELSE cur

GetLineAtTimeStrict(sl, position) ==
    IF Len(sl.Lines) = 0 THEN 0 ELSE ScanLinesStrict(sl.Lines, position, 1, 0)

\* GetLineAtTime that takes the first line for active before its timestamp.
GetLineAtTimeOrFirst(sl, position) ==
    IF Len(sl.Lines) = 0 THEN 0
    ELSE IF ScanLines(sl.Lines, position, 1, 0) = 0 THEN 1
         ELSE ScanLines(sl.Lines, position, 1, 0)

GetLineAtTime(sl, position) ==
    IF Len(sl.Lines) = 0 THEN 0 ELSE ScanLines(sl.Lines, position, 1, 0)

-----------------------------------------------------------------------------
(* LRC documents and ParseLRC.  A document is the sequence of its source   *)
(* lines; a source line is given by the timestamps its [mm:ss.xx] tokens   *)
(* decode to, in order, and by the text left once the tokens are stripped  *)
(* and the rest is trimmed.                                                *)

SrcLine(stamps, text) == [stamps |-> stamps, text |-> text]

\* LinesOf that takes the first timestamp of the line only.
LinesOfFirst(src) ==
    IF Len(src.stamps) = 0 \/ src.text = "" THEN <<>>
    ELSE <<LyricLine(src.stamps[1], src.text)>>

\* The LyricLines one source line appends: none without a timestamp or with
\* empty text, else one per timestamp.
LinesOf(src) ==
    IF Len(src.stamps) = 0 \/ src.text = "" THEN <<>>
    ELSE [k \in 1..Len(src.stamps) |-> LyricLine(src.stamps[k], src.text)]

RECURSIVE Collect(_, _)
Collect(doc, i) ==
    IF i > Len(doc) THEN <<>> ELSE LinesOf(doc[i]) \o Collect(doc, i + 1)

\* sort.Slice on a slice of at most 12 elements is an insertion sort: an
\* element moves left while it is less than its left neighbour.
RECURSIVE InsertLine(_, _)
InsertLine(s, x) ==
    IF Len(s) = 0 THEN <<x>>
    ELSE IF x.Time < s[Len(s)].Time
         THEN Append(InsertLine(SubSeq(s, 1, Len(s) - 1), x), s[Len(s)])
         ELSE Append(s, x)

\* SortLines that leaves the lines as they were appended.
SortLinesNot(lines, n) == SubSeq(lines, 1, n)

RECURSIVE SortLines(_, _)
SortLines(lines, n) ==
    IF n = 0 THEN <<>> ELSE InsertLine(SortLines(lines, n - 1), lines[n])

\* Nil stands for the error return.
ParseLRC(doc) ==
    LET lines == Collect(doc, 1)
    IN  IF Len(lines) = 0 THEN Nil
        ELSE SyncedLyrics(SortLines(lines, Len(lines)))

-----------------------------------------------------------------------------
(* LRC text.  A line of text is the sequence of its pieces: a match of     *)
(* timeRegex (a [mm:ss.xx] or [mm:ss] token), a white-space character, or  *)
(* a run of other characters outside any match.  A line marked long is     *)
(* longer than the 64 KiB a bufio.Scanner accepts for one token.           *)

\* A match of timeRegex; cs is -1 when the centiseconds group is absent.
Stamp(m, s, cs) == [k |-> "ts", m |-> m, s |-> s, cs |-> cs, c |-> ""]

Space == [k |-> "sp", m |-> 0, s |-> 0, cs |-> 0, c |-> " "]

Run(c) == [k |-> "tx", m |-> 0, s |-> 0, cs |-> 0, c |-> c]

RawLine(items, long) == [items |-> items, long |-> long]

\* minutes*time.Minute + seconds*time.Second + centiseconds*10ms
Timestamp(match) ==
    match.m * 6000 + match.s * 100 + (IF match.cs < 0 THEN 0 ELSE match.cs)

\* timeRegex.FindAllStringSubmatch(line, -1)
Matches(line) == SelectSeq(line.items, LAMBDA it : it.k = "ts")

\* timeRegex.ReplaceAllString(line, "")
Stripped(line) == SelectSeq(line.items, LAMBDA it : it.k # "ts")

\* strings.TrimSpace
RECURSIVE TrimSpace(_)
TrimSpace(items) ==
    IF Len(items) = 0 THEN items
    ELSE IF items[1].k = "sp" THEN TrimSpace(Tail(items))
    ELSE IF items[Len(items)].k = "sp"
         THEN TrimSpace(SubSeq(items, 1, Len(items) - 1))
         ELSE items

\* The string the pieces make.
RECURSIVE Join(_)
Join(items) ==
    IF Len(items) = 0 THEN "" ELSE items[1].c \o Join(Tail(items))

\* The text of a line: stripped of its matches, then trimmed.
DisplayText(line) == Join(TrimSpace(Stripped(line)))

\* One line of text as ParseLRC's loop body sees it.
SourceLine(line) ==
    LET matches == Matches(line)
    IN  SrcLine([i \in 1..Len(matches) |-> Timestamp(matches[i])],
                DisplayText(line))

\* The lines scanner.Scan delivers: those before the first long line.
RECURSIVE Scanned(_, _)
Scanned(text, i) ==
    IF i > Len(text) THEN <<>>
    ELSE IF text[i].long THEN <<>>
    ELSE <<SourceLine(text[i])>> \o Scanned(text, i + 1)

\* A scanner that never fails.
ScanErrNever(text) == FALSE

\* scanner.Err() != nil: bufio.ErrTooLong
ScanErr(text) == \E i \in 1..Len(text) : text[i].long

\* s without its i-th element.
RemoveAt(s, i) == SubSeq(s, 1, i - 1) \o SubSeq(s, i + 1, Len(s))

\* The arrangements of a sorted sequence that differ only in the order of
\* lines of equal Time.
RECURSIVE TieOrders(_)
TieOrders(s) ==
    IF Len(s) = 0 THEN {<<>>}
    ELSE UNION { { <<s[i]>> \o r : r \in TieOrders(RemoveAt(s, i)) } :
                    i \in { j \in 1..Len(s) : s[j].Time = s[1].Time } }

\* sort.Slice(lines, Time <).  Up to 12 elements it is the insertion sort
\* above; beyond, a pattern-defeating quicksort whose partitioning swaps
\* elements across others of equal Time: "The sort is not guaranteed to be
\* stable", and the order among equal elements is the library's to choose.
SortSlice(lines) ==
    IF Len(lines) <= 12 THEN {SortLines(lines, Len(lines))}
    ELSE TieOrders(SortLines(lines, Len(lines)))

\* ParseLRC on text: the results it can return, Nil for an error.
ParseLRCText(text) ==
    LET lines == Collect(Scanned(text, 1), 1)
    IN  IF ScanErr(text) THEN {Nil}
        ELSE IF Len(lines) = 0 THEN {Nil}
        ELSE { SyncedLyrics(l) : l \in SortSlice(lines) }

-----------------------------------------------------------------------------
(* The environment: what the detector can report and what the provider     *)
(* holds for each song.                                                    *)

Song(a, t) == [Artist |-> a, Title |-> t]

Songs == { Song("A", "X"), Song("A - B", "C"), Song("A", "B - C") }

\* The playback positions the detector reports for each song.
Positions(s) ==
    CASE s = Song("A", "X") -> {120, 350}
      [] s = Song("A - B", "C") -> {0, 120, 350}
      [] OTHER -> {120}

Offsets == {-100, 0}

DocA == << SrcLine(<<100>>, "Hello"), SrcLine(<<350>>, "World"),
           SrcLine(<<350>>, "World (dup)") >>

DocB == << SrcLine(<<>>, "plain"), SrcLine(<<100, 0>>, "Hello"),
           SrcLine(<<300>>, "Bye") >>

DocMeta == << SrcLine(<<>>, "[ar:Artist]"), SrcLine(<<0>>, "") >>

\* The document lrclib.net returns for a song when the request succeeds.
Provider(artist, title) ==
    CASE artist = "A" /\ title = "X" -> DocA
      [] artist = "A - B" /\ title = "C" -> DocB
      [] OTHER -> DocMeta

ErrResult == [kind |-> "err", Artist |-> "", Title |-> "", Position |-> 0,
              IsPlaying |-> FALSE]

\* (nil, nil): the Windows detector's answer when the session has no title.
NilResult == [kind |-> "nil", Artist |-> "", Title |-> "", Position |-> 0,
              IsPlaying |-> FALSE]

\* The samples: a song playing at one of its positions, or paused.
SongResults ==
    { [kind |-> "song", Artist |-> sp[1].Artist, Title |-> sp[1].Title,
       Position |-> sp[2], IsPlaying |-> TRUE] :
          sp \in { x \in Songs \X {0, 120, 350} : x[2] \in Positions(x[1]) } }
    \cup
    { [kind |-> "song", Artist |-> "A", Title |-> "X", Position |-> 120,
       IsPlaying |-> FALSE] }

DetectorResults == {ErrResult, NilResult} \cup SongResults

Outcomes == {"ok", "fail"}

-----------------------------------------------------------------------------
(* Fetcher *)

getCacheKey(artist, title) == artist \o "|||" \o title

CacheKeys == { getCacheKey(s.Artist, s.Title) : s \in Songs }

\* What ParseLRC makes of each song's document.
Parsed == [s \in Songs |-> ParseLRC(Provider(s.Artist, s.Title))]

\* fetchFromSource: net is the outcome of the HTTP exchange.
fetchFromSource(artist, title, net) ==
    IF net = "fail" THEN Nil ELSE Parsed[Song(artist, title)]

\* FetchLyrics that remembers a failure as a timeline without lines.
FetchLyricsCachesFailure(c, artist, title, net) ==
    LET cacheKey == getCacheKey(artist, title)
    IN  IF c[cacheKey] # Nil
        THEN [lyrics |-> c[cacheKey], cache |-> c, contacted |-> FALSE]
        ELSE LET lyrics == fetchFromSource(artist, title, net)
             IN  [lyrics |-> lyrics,
                  cache |-> [c EXCEPT ![cacheKey] =
                               IF lyrics = Nil THEN SyncedLyrics(<<>>)
                               ELSE lyrics],
                  contacted |-> TRUE]

\* FetchLyrics that looks the cache up but never stores what it fetched.
FetchLyricsNoStore(c, artist, title, net) ==
    LET cacheKey == getCacheKey(artist, title)
    IN  IF c[cacheKey] # Nil
        THEN [lyrics |-> c[cacheKey], cache |-> c, contacted |-> FALSE]
        ELSE [lyrics |-> fetchFromSource(artist, title, net), cache |-> c,
              contacted |-> TRUE]

\* FetchLyrics: the lyrics returned (Nil with an error), the cache afterwards
\* and whether the provider was contacted.
FetchLyrics(c, artist, title, net) ==
    LET cacheKey == getCacheKey(artist, title)
    IN  IF c[cacheKey] # Nil
        THEN [lyrics |-> c[cacheKey], cache |-> c, contacted |-> FALSE]
        ELSE LET lyrics == fetchFromSource(artist, title, net)
             IN  IF lyrics = Nil
                 THEN [lyrics |-> Nil, cache |-> c, contacted |-> TRUE]
                 ELSE [lyrics |-> lyrics,
                       cache |-> [c EXCEPT ![cacheKey] = lyrics],
                       contacted |-> TRUE]

-----------------------------------------------------------------------------
(* Orchestrator.tick *)

\* fmt.Sprintf("%s - %s", songInfo.Artist, songInfo.Title)
SongKey(artist, title) == artist \o " - " \o title

\* ClearState that leaves lastLyricText as it was.
ClearStateKeepsLast(key, lyrics, last) ==
    IF key # ""
    THEN [key |-> "", lyrics |-> Nil, last |-> last]
    ELSE [key |-> key, lyrics |-> lyrics, last |-> last]

\* ClearState that forgets the song but keeps its timeline.
ClearStateKeepsLyrics(key, lyrics, last) ==
    IF key # ""
    THEN [key |-> "", lyrics |-> lyrics, last |-> ""]
    ELSE [key |-> key, lyrics |-> lyrics, last |-> last]

\* The detection-failure branch: the tracker fields afterwards.
ClearState(key, lyrics, last) ==
    IF key # ""
    THEN [key |-> "", lyrics |-> Nil, last |-> ""]
    ELSE [key |-> key, lyrics |-> lyrics, last |-> last]

\* IsNewSong that also takes a tracked song without lyrics for a new one.
IsNewSongOrNoLyrics(songKey, key, lyrics) == songKey # key \/ lyrics = Nil

\* "Check if this is a new song"
IsNewSong(songKey, key, lyrics) == songKey # key

\* LyricChanged without the comparison.
LyricChangedAlways(text, last) == TRUE

\* "Update clipboard if the lyric has changed"
LyricChanged(text, last) == text # last

\* Whether the tick before this one saw the same song, and the very same
\* sample under the same offset.
SameSongAsLast(d) ==
    /\ lastTick.kind = "song"
    /\ lastTick.Artist = d.Artist
    /\ lastTick.Title = d.Title

SameSampleAsLast(d) ==
    /\ SameSongAsLast(d)
    /\ lastTick.Position = d.Position
    /\ lastTick.IsPlaying = d.IsPlaying
    /\ lastTick.offset = lyricOffset

NoTick ==
    [kind |-> "none", Artist |-> "", Title |-> "", Position |-> 0,
     IsPlaying |-> FALSE, offset |-> 0, wasTracked |-> FALSE,
     hadEmitted |-> FALSE, sameSong |-> FALSE, same |-> FALSE,
     cleanRun |-> FALSE, entryChanged |-> FALSE, textRepeats |-> FALSE,
     activeText |-> "", fetchCalled |-> FALSE,
     contacted |-> FALSE, fetchOK |-> FALSE, line |-> 0,
     writeCalled |-> FALSE, writeOK |-> FALSE, emitted |-> FALSE,
     notified |-> FALSE]

\* The history record of a tick that saw d and did nothing.
TickRecord(d) ==
    [kind |-> d.kind, Artist |-> d.Artist, Title |-> d.Title,
     Position |-> d.Position, IsPlaying |-> d.IsPlaying,
     offset |-> lyricOffset,
     wasTracked |-> currentSongKey # "", hadEmitted |-> lastLyricText # "",
     sameSong |-> SameSongAsLast(d), same |-> SameSampleAsLast(d),
     cleanRun |-> FALSE, entryChanged |-> FALSE, textRepeats |-> FALSE,
     activeText |-> "",
     fetchCalled |-> FALSE, contacted |-> FALSE, fetchOK |-> FALSE,
     line |-> 0, writeCalled |-> FALSE, writeOK |-> FALSE,
     emitted |-> FALSE, notified |-> FALSE]

\* The detection-failure branch, if going idle also put the offset and the
\* clipboard flag back to their defaults.
TickNoSongResetsConfig ==
    /\ pc = "tick" /\ crashed = "none"
    /\ LET st == ClearState(currentSongKey, currentLyrics, lastLyricText)
       IN  /\ currentSongKey' = st.key
           /\ currentLyrics' = st.lyrics
           /\ lastLyricText' = st.last
    /\ lastTick' = TickRecord(ErrResult)
    /\ pc' = "select"
    /\ lyricOffset' = 0
    /\ updateClipboard' = TRUE
    /\ UNCHANGED <<stopChan, detectorClosed, cache, crashed, tickAfterStop>>

\* err != nil
TickNoSong ==
    /\ pc = "tick" /\ crashed = "none"
    /\ LET st == ClearState(currentSongKey, currentLyrics, lastLyricText)
       IN  /\ currentSongKey' = st.key
           /\ currentLyrics' = st.lyrics
           /\ lastLyricText' = st.last
    /\ lastTick' = TickRecord(ErrResult)
    /\ pc' = "select"
    /\ UNCHANGED <<lyricOffset, updateClipboard, stopChan,
                   detectorClosed, cache, crashed, tickAfterStop>>

\* A run-time panic that no goroutine recovers ends the process: nothing of
\* its memory is left, only the cause.
Panic(cause) ==
    /\ crashed' = cause
    /\ pc' = "panicked"
    /\ currentSongKey' = ""
    /\ currentLyrics' = Nil
    /\ lastLyricText' = ""
    /\ lyricOffset' = 0
    /\ updateClipboard' = FALSE
    /\ stopChan' = "closed"
    /\ detectorClosed' = TRUE
    /\ cache' = [k \in CacheKeys |-> Nil]
    /\ lastTick' = [NoTick EXCEPT !.kind = "gone"]
    /\ UNCHANGED tickAfterStop

\* (nil, nil): songInfo.Artist dereferences the nil pointer.
TickNilSong ==
    /\ pc = "tick" /\ crashed = "none"
    /\ Panic("nil dereference")

\* AdjustedPosition that never goes below the start of the song.
AdjustedPositionClamped(position, offset) ==
    IF position + offset < 0 THEN 0 ELSE position + offset

\* "Apply lyric offset": adjustedPosition := songInfo.Position + o.lyricOffset
AdjustedPosition(position, offset) == position + offset

\* A sample d; net and clip are the outcomes the HTTP exchange and the
\* clipboard write have if the tick makes them.
TickSong(d, net, clip) ==
    /\ pc = "tick" /\ crashed = "none"
    /\ LET songKey == SongKey(d.Artist, d.Title)
           isNew   == IsNewSong(songKey, currentSongKey, currentLyrics)
           fetch   == FetchLyrics(cache, d.Artist, d.Title, net)
           lyrics  == IF isNew THEN fetch.lyrics ELSE currentLyrics
           last0   == IF isNew THEN "" ELSE lastLyricText
           adjustedPosition == AdjustedPosition(d.Position, lyricOffset)
           line    == IF lyrics = Nil THEN 0
                      ELSE GetLineAtTime(lyrics, adjustedPosition)
           text    == IF line = 0 THEN "" ELSE lyrics.Lines[line].Text
           changed == line # 0 /\ LyricChanged(text, last0)
           write   == changed /\ updateClipboard
           failed  == write /\ clip = "fail"
           emit    == changed /\ ~failed
           \* history: the entry the previous tick of this song found active,
           \* and the text of the last entry a tick of this song found active
           prevLine == IF isNew THEN 0 ELSE lastTick.line
           prevText == IF isNew THEN "" ELSE lastTick.activeText
       IN  /\ currentSongKey' = songKey
           /\ currentLyrics' = lyrics
           /\ cache' = IF isNew THEN fetch.cache ELSE cache
           /\ lastLyricText' = IF emit THEN text ELSE last0
           /\ lastTick' = [TickRecord(d) EXCEPT
                  !.cleanRun = /\ isNew \/ lastTick.cleanRun
                               /\ updateClipboard
                               /\ ~failed,
                  !.entryChanged = line # prevLine,
                  !.textRepeats = line # 0 /\ text = prevText,
                  !.activeText = IF line # 0 THEN text ELSE prevText,
                  !.fetchCalled = isNew,
                  !.contacted = isNew /\ fetch.contacted,
                  !.fetchOK = isNew /\ fetch.lyrics # Nil,
                  !.line = line,
                  !.writeCalled = write,
                  !.writeOK = write /\ ~failed,
                  !.emitted = emit,
                  !.notified = emit]
    /\ pc' = "select"
    /\ UNCHANGED <<lyricOffset, updateClipboard, stopChan,
                   detectorClosed, crashed, tickAfterStop>>

\* The outcomes are drawn only for the exchanges the tick can make.
Tick ==
    \/ TickNoSong
    \/ TickNilSong
    \/ \E d \in SongResults :
         \E net \in IF SongKey(d.Artist, d.Title) # currentSongKey
                    THEN Outcomes ELSE {"ok"} :
           \E clip \in IF updateClipboard THEN Outcomes ELSE {"ok"} :
              TickSong(d, net, clip)

-----------------------------------------------------------------------------
(* Orchestrator.Start, Stop and the setters *)

\* The ticker delivers on ticker.C and select takes case <-ticker.C.  The
\* ticker runs until Start returns, so a tick can be ready whenever the
\* loop is at its select, also when stopChan is ready too: select then
\* picks either case.
SelectTick ==
    /\ crashed = "none" /\ pc = "select"
    /\ pc' = "tick"
    /\ tickAfterStop' = (tickAfterStop \/ stopChan = "closed")
    /\ UNCHANGED <<currentSongKey, currentLyrics, lastLyricText, lyricOffset,
                   updateClipboard, stopChan, detectorClosed,
                   cache, crashed, lastTick>>

\* select takes case <-o.stopChan; Start returns and the deferred
\* ticker.Stop() ends the ticker.
SelectStop ==
    /\ crashed = "none" /\ pc = "select"
    /\ stopChan = "closed"
    /\ pc' = "exited"
    /\ UNCHANGED <<currentSongKey, currentLyrics, lastLyricText, lyricOffset,
                   updateClipboard, stopChan, detectorClosed,
                   cache, crashed, tickAfterStop, lastTick>>

\* close(o.stopChan); o.detector.Close().  Closing a closed channel panics.
Stop ==
    /\ crashed = "none"
    /\ IF stopChan = "closed"
       THEN Panic("close of closed channel")
       ELSE /\ stopChan' = "closed"
            /\ detectorClosed' = TRUE
            /\ UNCHANGED <<currentSongKey, currentLyrics, lastLyricText,
                           lyricOffset, updateClipboard, cache,
                           pc, crashed, tickAfterStop, lastTick>>

SetLyricOffset(offset) ==
    /\ crashed = "none"
    /\ lyricOffset' = offset
    /\ UNCHANGED <<currentSongKey, currentLyrics, lastLyricText,
                   updateClipboard, stopChan, detectorClosed,
                   cache, pc, crashed, tickAfterStop, lastTick>>

\* SetUpdateClipboard that, when enabling, forgets the text last emitted so
\* that the active line is written again.
SetUpdateClipboardResync(enabled) ==
    /\ crashed = "none"
    /\ updateClipboard' = enabled
    /\ lastLyricText' = IF enabled THEN "" ELSE lastLyricText
    /\ UNCHANGED <<currentSongKey, currentLyrics, lyricOffset,
                   stopChan, detectorClosed, cache, pc,
                   crashed, tickAfterStop, lastTick>>

SetUpdateClipboard(enabled) ==
    /\ crashed = "none"
    /\ updateClipboard' = enabled
    /\ UNCHANGED <<currentSongKey, currentLyrics, lastLyricText, lyricOffset,
                   stopChan, detectorClosed, cache, pc,
                   crashed, tickAfterStop, lastTick>>

-----------------------------------------------------------------------------
(* Configuration: config.Default and config.Load *)

\* time.Millisecond: a time.Duration counts nanoseconds.
Millisecond == 1000 * 1000

\* A *Config; nil is what Load returns with an error.
Config(poll, offset, cacheOn, update, demo, artist, title, mini, notify) ==
    [isNil |-> FALSE, PollInterval |-> poll, LyricOffset |-> offset,
     EnableCache |-> cacheOn, UpdateClipboard |-> update,
     DemoMode |-> demo, DemoArtist |-> artist, DemoTitle |-> title,
     StartMinimized |-> mini, ShowNotifications |-> notify]

NilConfig ==
    [Config(0, 0, FALSE, FALSE, FALSE, "", "", FALSE, FALSE)
        EXCEPT !.isNil = TRUE]

\* config.Default
Default ==
    Config(300 * Millisecond, 0, TRUE, TRUE, FALSE, "Rick Astley",
           "Never Gonna Give You Up", FALSE, TRUE)

\* The keys of the JSON object of a config file.  A key the object has holds
\* <<value>>, a key it omits holds <<>>.
ConfigKeys ==
    {"poll_interval_ms", "lyric_offset_ms", "enable_cache",
     "update_clipboard", "demo_mode", "demo_artist", "demo_title",
     "start_minimized", "show_notifications"}

\* json.Unmarshal into a configFile field: a key the object omits leaves the
\* field at the zero value of its type.
Field(obj, key, zero) == IF obj[key] = <<>> THEN zero ELSE obj[key][1]

\* json.Unmarshal(data, &cf)
Unmarshal(obj) ==
    [PollIntervalMs    |-> Field(obj, "poll_interval_ms", 0),
     LyricOffsetMs     |-> Field(obj, "lyric_offset_ms", 0),
     EnableCache       |-> Field(obj, "enable_cache", FALSE),
     UpdateClipboard   |-> Field(obj, "update_clipboard", FALSE),
     DemoMode          |-> Field(obj, "demo_mode", FALSE),
     DemoArtist        |-> Field(obj, "demo_artist", ""),
     DemoTitle         |-> Field(obj, "demo_title", ""),
     StartMinimized    |-> Field(obj, "start_minimized", FALSE),
     ShowNotifications |-> Field(obj, "show_notifications", FALSE)]

\* "Apply defaults for zero values"
ApplyDefaults(config) ==
    [config EXCEPT
       !.PollInterval = IF @ = 0 THEN 300 * Millisecond ELSE @,
       !.DemoArtist = IF @ = "" THEN "Rick Astley" ELSE @,
       !.DemoTitle = IF @ = "" THEN "Never Gonna Give You Up" ELSE @]

\* The file at the path: missing, unreadable, not a JSON object of the
\* right types, or an object.
EmptyObject == [k \in ConfigKeys |-> <<>>]

MissingFile == [kind |-> "missing", obj |-> EmptyObject]

\* config.Load: the *Config returned, NilConfig with an error.
Load(file) ==
    CASE file.kind = "missing" -> Default
      [] file.kind \in {"unreadable", "invalid"} -> NilConfig
      [] OTHER ->
           LET cf == Unmarshal(file.obj)
           IN  ApplyDefaults(
                   Config(cf.PollIntervalMs * Millisecond,
                          cf.LyricOffsetMs * Millisecond,
                          cf.EnableCache, cf.UpdateClipboard, cf.DemoMode,
                          cf.DemoArtist, cf.DemoTitle, cf.StartMinimized,
                          cf.ShowNotifications))

-----------------------------------------------------------------------------
(* Specifications *)

\* NewOrchestrator, a SetStatusCallback or none, and Start up to its loop.
OrchInit ==
    /\ currentSongKey = ""
    /\ currentLyrics = Nil
    /\ lastLyricText = ""
    /\ lyricOffset \in Offsets
    /\ updateClipboard \in BOOLEAN
    /\ stopChan = "open"
    /\ detectorClosed = FALSE
    /\ cache = [k \in CacheKeys |-> Nil]
    /\ pc = "select"
    /\ crashed = "none"
    /\ tickAfterStop = FALSE
    /\ lastTick = NoTick

LookupIdle ==
    /\ lkLines = Nil
    /\ lkPos = 0
    /\ lkResult = 0
    /\ lkDone = FALSE

\* A time.Duration d (in centiseconds, |d| < 2^31 ns) as the two 32-bit
\* words of its int64 count of nanoseconds: the low word, read as an int32,
\* is the count itself, and the high word is its sign extension.
Words(d) == [hi |-> IF d < 0 THEN -1 ELSE 0, lo |-> d * 10000000]

RaceIdle ==
    /\ rcArch = 64
    /\ rcMem = Words(0)
    /\ rcFlag = FALSE
    /\ rcCall = [pc |-> "idle", kind |-> "none", offset |-> Words(0),
                 enabled |-> FALSE, before |-> Words(0), flagBefore |-> FALSE]
    /\ rcTick = [pc |-> "idle", hi |-> 0, lo |-> 0, flag |-> FALSE]

ScenarioIdle ==
    /\ scStep = 0
    /\ scLog = <<>>

ParseIdle ==
    /\ psDoc = <<>>
    /\ psResult = Nil
    /\ psPc = "start"
    /\ psPos = 0
    /\ psLine = 0

ConfigIdle ==
    /\ cfFile = MissingFile
    /\ cfPc = "start"
    /\ cfConfig = NilConfig

\* The goroutines that call the Fetcher: two in FetchLyrics, one in
\* ClearCache.
Fetchers == {"f1", "f2"}

Clearer == "cl"

\* A goroutine outside any call.
IdleCall ==
    [pc |-> "idle", Artist |-> "", Title |-> "", n |-> 0, lines |-> <<>>,
     lyrics |-> Nil, found |-> FALSE]

\* NewFetcher: an empty cache, the mutex free.
CacheIdle ==
    /\ chMu = [writer |-> "none", readers |-> {}]
    /\ chMap = [k \in CacheKeys |-> Nil]
    /\ chWriting = FALSE
    /\ chCall = [c \in Fetchers \cup {Clearer} |-> IdleCall]
    /\ chFault = "none"

\* The loop at its select with no tick waiting, and no status call made.
LoopIdle ==
    /\ lpTimer = 0
    /\ lpPhase = "none"
    /\ lpRunning = 0
    /\ lpSample = ErrResult
    /\ lpLine = 0
    /\ lpTimedOut = FALSE
    /\ stPc = "idle"
    /\ stKey = ""
    /\ stOut = ""

\* The titles toggleClipboard gives the item.  The source writes a check
\* mark and a ballot box in front of the words; they are spelled here in
\* brackets.
TitleChecked == "[v] Clipboard Updates"

TitleUnchecked == "[ ] Clipboard Updates"

\* The menu as onReady builds it.  systray.AddMenuItem creates an item that
\* is not checked, whatever its title shows; of the offset items the one for
\* 0 is checked.
TrayIdle ==
    /\ trChecked = FALSE
    /\ trTitle = TitleChecked
    /\ trOffsetItems = {0}
    /\ trCurrentOffset = 0
    /\ trClicks = 0

Init == OrchInit /\ LookupIdle /\ RaceIdle /\ ScenarioIdle /\ ParseIdle /\ ConfigIdle /\ CacheIdle /\ LoopIdle /\ TrayIdle

Next ==
    \/ (SelectTick /\ UNCHANGED harnessVars)
    \/ (SelectStop /\ UNCHANGED harnessVars)
    \/ (Tick /\ UNCHANGED harnessVars)
    \/ (Stop /\ UNCHANGED harnessVars)
    \/ (\E offset \in Offsets :
            SetLyricOffset(offset) /\ UNCHANGED harnessVars)
    \/ (\E enabled \in BOOLEAN :
            SetUpdateClipboard(enabled) /\ UNCHANGED harnessVars)

Spec == Init /\ [][Next]_vars

-----------------------------------------------------------------------------
(* The lookup on its own: GetLineAtTime applied to any sorted timeline.    *)

MaxLen == 3

MaxTime == 3

Texts == {"a", "b"}

LineSet == { LyricLine(t, x) : t \in 0..MaxTime, x \in Texts }

IsSorted(lines) ==
    \A i \in 1..(Len(lines) - 1) : lines[i].Time <= lines[i + 1].Time

SortedTimelines ==
    { l \in UNION { [1..n -> LineSet] : n \in 1..MaxLen } : IsSorted(l) }

LookupInit ==
    /\ OrchInit /\ RaceIdle /\ ScenarioIdle /\ ParseIdle /\ ConfigIdle /\ CacheIdle /\ LoopIdle /\ TrayIdle
    /\ lkLines \in { SyncedLyrics(l) : l \in SortedTimelines }
    /\ lkPos \in -1..(MaxTime + 1)
    /\ lkResult = 0
    /\ lkDone = FALSE

LookupApply ==
    /\ ~lkDone
    /\ lkResult' = GetLineAtTime(lkLines, lkPos)
    /\ lkDone' = TRUE
    /\ UNCHANGED <<lkLines, lkPos>>

LookupNext == LookupApply /\ UNCHANGED <<orchVars, rcVars, scVars, psVars, cfVars, chVars, lpVars, trVars>>

SpecLookup == LookupInit /\ [][LookupNext]_vars

-----------------------------------------------------------------------------
(* A setter against a tick.  The tray goroutine calls SetLyricOffset or    *)
(* SetUpdateClipboard while the Start goroutine runs a tick; no lock and   *)
(* no atomic operation orders the setter's store and the tick's load of    *)
(* o.lyricOffset (an int64) or o.updateClipboard (a bool).  On a 64-bit    *)
(* target the int64 is stored and loaded in one instruction, on a 32-bit   *)
(* target (GOARCH=386, arm) in two, a word at a time.                      *)

\* The offsets of the tray menu.
TrayOffsets == {-200, -100, -50, 0, 50, 100, 200}

\* The call the tray goroutine is about to make, with o.lyricOffset = old
\* and o.updateClipboard = flag in memory.
RaceCalls(old, flag) ==
    { [pc |-> "call", kind |-> "offset", offset |-> Words(new),
       enabled |-> flag, before |-> Words(old), flagBefore |-> flag] :
          new \in TrayOffsets }
    \cup
    { [pc |-> "call", kind |-> "flag", offset |-> Words(old),
       enabled |-> enabled, before |-> Words(old), flagBefore |-> flag] :
          enabled \in BOOLEAN }

RaceInit ==
    /\ OrchInit /\ LookupIdle /\ ScenarioIdle /\ ParseIdle /\ ConfigIdle /\ CacheIdle /\ LoopIdle /\ TrayIdle
    /\ rcArch \in {32, 64}
    /\ \E old \in TrayOffsets : \E flag \in BOOLEAN :
          /\ rcMem = Words(old)
          /\ rcFlag = flag
          /\ rcCall \in RaceCalls(old, flag)
    /\ rcTick = [pc |-> "offset", hi |-> 0, lo |-> 0, flag |-> FALSE]

\* o.lyricOffset = offset, one 64-bit store.
StoreOffset ==
    /\ rcArch = 64
    /\ rcCall.pc = "call" /\ rcCall.kind = "offset"
    /\ rcMem' = rcCall.offset
    /\ rcCall' = [rcCall EXCEPT !.pc = "returned"]
    /\ UNCHANGED <<rcArch, rcFlag, rcTick>>

\* o.lyricOffset = offset, the store of the low word.
StoreOffsetLow ==
    /\ rcArch = 32
    /\ rcCall.pc = "call" /\ rcCall.kind = "offset"
    /\ rcMem' = [rcMem EXCEPT !.lo = rcCall.offset.lo]
    /\ rcCall' = [rcCall EXCEPT !.pc = "high"]
    /\ UNCHANGED <<rcArch, rcFlag, rcTick>>

\* o.lyricOffset = offset, the store of the high word.
StoreOffsetHigh ==
    /\ rcCall.pc = "high"
    /\ rcMem' = [rcMem EXCEPT !.hi = rcCall.offset.hi]
    /\ rcCall' = [rcCall EXCEPT !.pc = "returned"]
    /\ UNCHANGED <<rcArch, rcFlag, rcTick>>

\* o.updateClipboard = enabled
StoreFlag ==
    /\ rcCall.pc = "call" /\ rcCall.kind = "flag"
    /\ rcFlag' = rcCall.enabled
    /\ rcCall' = [rcCall EXCEPT !.pc = "returned"]
    /\ UNCHANGED <<rcArch, rcMem, rcTick>>

\* songInfo.Position + o.lyricOffset, one 64-bit load.
LoadOffset ==
    /\ rcArch = 64
    /\ rcTick.pc = "offset"
    /\ rcTick' = [rcTick EXCEPT !.pc = "flag", !.hi = rcMem.hi,
                                !.lo = rcMem.lo]
    /\ UNCHANGED <<rcArch, rcMem, rcFlag, rcCall>>

\* songInfo.Position + o.lyricOffset, the load of the low word.
LoadOffsetLow ==
    /\ rcArch = 32
    /\ rcTick.pc = "offset"
    /\ rcTick' = [rcTick EXCEPT !.pc = "high", !.lo = rcMem.lo]
    /\ UNCHANGED <<rcArch, rcMem, rcFlag, rcCall>>

\* songInfo.Position + o.lyricOffset, the load of the high word.
LoadOffsetHigh ==
    /\ rcTick.pc = "high"
    /\ rcTick' = [rcTick EXCEPT !.pc = "flag", !.hi = rcMem.hi]
    /\ UNCHANGED <<rcArch, rcMem, rcFlag, rcCall>>

\* if o.updateClipboard
LoadFlag ==
    /\ rcTick.pc = "flag"
    /\ rcTick' = [rcTick EXCEPT !.pc = "done", !.flag = rcFlag]
    /\ UNCHANGED <<rcArch, rcMem, rcFlag, rcCall>>

RaceNext ==
    \/ (StoreOffset /\ UNCHANGED <<orchVars, lkVars, scVars, psVars, cfVars, chVars, lpVars, trVars>>)
    \/ (StoreOffsetLow /\ UNCHANGED <<orchVars, lkVars, scVars, psVars, cfVars, chVars, lpVars, trVars>>)
    \/ (StoreOffsetHigh /\ UNCHANGED <<orchVars, lkVars, scVars, psVars, cfVars, chVars, lpVars, trVars>>)
    \/ (StoreFlag /\ UNCHANGED <<orchVars, lkVars, scVars, psVars, cfVars, chVars, lpVars, trVars>>)
    \/ (LoadOffset /\ UNCHANGED <<orchVars, lkVars, scVars, psVars, cfVars, chVars, lpVars, trVars>>)
    \/ (LoadOffsetLow /\ UNCHANGED <<orchVars, lkVars, scVars, psVars, cfVars, chVars, lpVars, trVars>>)
    \/ (LoadOffsetHigh /\ UNCHANGED <<orchVars, lkVars, scVars, psVars, cfVars, chVars, lpVars, trVars>>)
    \/ (LoadFlag /\ UNCHANGED <<orchVars, lkVars, scVars, psVars, cfVars, chVars, lpVars, trVars>>)

SpecRace == RaceInit /\ [][RaceNext]_vars

-----------------------------------------------------------------------------
(* The tracker on one stream of samples: song A at 0 s, at 1.2 s twice, a  *)
(* detection failure, song A at 0.5 s, with offset 0 and from a fresh      *)
(* orchestrator; the provider's document for the song is DocA.             *)

ScSample(position) ==
    [kind |-> "song", Artist |-> "A", Title |-> "X", Position |-> position,
     IsPlaying |-> TRUE]

ScStream ==
    << ScSample(0), ScSample(120), ScSample(120), ErrResult, ScSample(50) >>

ScenarioInit ==
    /\ OrchInit /\ lyricOffset = 0
    /\ LookupIdle /\ RaceIdle /\ ScenarioIdle /\ ParseIdle /\ ConfigIdle /\ CacheIdle /\ LoopIdle /\ TrayIdle

\* The next tick of the stream; the log gets the text the tick assigned to
\* lastLyricText, if any, whether its clipboard write failed, and whether
\* the tick had the song's timeline.
ScTick ==
    /\ scStep < Len(ScStream)
    /\ LET d == ScStream[scStep + 1]
       IN  IF d.kind = "err" THEN TickNoSong
           ELSE \E net \in IF SongKey(d.Artist, d.Title) # currentSongKey
                            THEN Outcomes ELSE {"ok"} :
                  \E clip \in IF updateClipboard THEN Outcomes ELSE {"ok"} :
                     TickSong(d, net, clip)
    /\ scStep' = scStep + 1
    /\ scLog' = Append(scLog,
                   [text |-> IF lastTick'.emitted THEN lastLyricText' ELSE "",
                    writeFailed |-> lastTick'.writeCalled
                                       /\ ~lastTick'.writeOK,
                    timeline |-> currentLyrics' # Nil])

ScenarioNext ==
    \/ (SelectTick /\ scStep < Len(ScStream) /\ UNCHANGED harnessVars)
    \/ (ScTick /\ UNCHANGED <<lkVars, rcVars, psVars, cfVars, chVars, lpVars, trVars>>)
    \/ (\E enabled \in BOOLEAN :
            SetUpdateClipboard(enabled) /\ UNCHANGED harnessVars)

SpecScenario == ScenarioInit /\ [][ScenarioNext]_vars

-----------------------------------------------------------------------------
(* The parser on its own: ParseLRC applied to a document, then             *)
(* GetLineAtTime applied to the timeline it returned.                      *)

MaxDocLines == 3

\* The lines the documents are made of:
\*   ""                          "[ar:x]"
\*   "[00:01.00]"                "[00:01.00] "
\*   "[00:01.00] a"              "[00:03.50]b"
\*   "[00:03.50][00:00.00]a b "  "a[00:01]b"
\*   "[00:00.00]a" followed by more than 64 KiB of text
RawLines ==
    { RawLine(<<>>, FALSE),
      RawLine(<<Run("[ar:x]")>>, FALSE),
      RawLine(<<Stamp(0, 1, 0)>>, FALSE),
      RawLine(<<Stamp(0, 1, 0), Space>>, FALSE),
      RawLine(<<Stamp(0, 1, 0), Space, Run("a")>>, FALSE),
      RawLine(<<Stamp(0, 3, 50), Run("b")>>, FALSE),
      RawLine(<<Stamp(0, 3, 50), Stamp(0, 0, 0), Run("a"), Space, Run("b"),
                Space>>, FALSE),
      RawLine(<<Run("a"), Stamp(0, 1, -1), Run("b")>>, FALSE),
      RawLine(<<Stamp(0, 0, 0), Run("a")>>, TRUE) }

\* "[00:01.00]Hello\n[00:03.50]World\n[00:03.50]World (dup)\n"
DocExample ==
    << RawLine(<<Stamp(0, 1, 0), Run("Hello")>>, FALSE),
       RawLine(<<Stamp(0, 3, 50), Run("World")>>, FALSE),
       RawLine(<<Stamp(0, 3, 50), Run("World"), Space, Run("(dup)")>>,
               FALSE) >>

\* Thirteen lines: "[00:01.00]a" to "[00:12.00]a", then "[00:01.00]b".
DocChorus ==
    [ i \in 1..13 |->
        IF i <= 12 THEN RawLine(<<Stamp(0, i, 0), Run("a")>>, FALSE)
        ELSE RawLine(<<Stamp(0, 1, 0), Run("b")>>, FALSE) ]

ParseDocs ==
    UNION { [1..n -> RawLines] : n \in 0..MaxDocLines }
        \cup {DocExample, DocChorus}

ParsePositions == {0, 100, 350}

ParseInit ==
    /\ OrchInit /\ LookupIdle /\ RaceIdle /\ ScenarioIdle /\ ConfigIdle /\ CacheIdle /\ LoopIdle /\ TrayIdle
    /\ psDoc \in ParseDocs
    /\ psResult = Nil
    /\ psPc = "start"
    /\ psPos = 0
    /\ psLine = 0

ParseApply ==
    /\ psPc = "start"
    /\ psResult' \in ParseLRCText(psDoc)
    /\ psPc' = "parsed"
    /\ UNCHANGED <<psDoc, psPos, psLine>>

\* GetLineAtTime reads the timeline and returns a pointer into it.
ParseLookup ==
    /\ psPc = "parsed" /\ psResult # Nil
    /\ \E position \in ParsePositions :
          /\ psPos' = position
          /\ psLine' = GetLineAtTime(psResult, position)
    /\ psPc' = "looked"
    /\ UNCHANGED <<psDoc, psResult>>

ParseNext ==
    \/ (ParseApply /\ UNCHANGED <<orchVars, lkVars, rcVars, scVars, cfVars, chVars, lpVars, trVars>>)
    \/ (ParseLookup /\ UNCHANGED <<orchVars, lkVars, rcVars, scVars, cfVars, chVars, lpVars, trVars>>)

SpecParse == ParseInit /\ [][ParseNext]_vars

-----------------------------------------------------------------------------
(* Properties *)

\* A step that is a complete run of tick.
TickStep == pc = "tick" /\ pc' = "select"

\* The text of the line the most recent tick found active.
LastTickText ==
    IF lastTick.line = 0 THEN "" ELSE currentLyrics.Lines[lastTick.line].Text

\* C1: a tick that sees the very sample of the tick before it, under the same
\* offset, with a line active, emits nothing (no clipboard write, no update
\* of lastLyricText, no notification): the one emission for that line has
\* been made, and lastLyricText is its text.
C1_RepeatedSampleEmitsNothing ==
    (lastTick.kind = "song" /\ lastTick.same /\ lastTick.line # 0)
        => /\ ~lastTick.writeCalled
           /\ ~lastTick.emitted
           /\ ~lastTick.notified
           /\ lastLyricText = LastTickText

\* C2 as stated, for the ticks that find an entry active: while the
\* clipboard is enabled and writes succeed, such a tick writes to the
\* clipboard exactly when the active entry differs from the entry active on
\* the previous tick of the song.
C2_WriteOnEntryChange ==
    (lastTick.kind = "song" /\ lastTick.cleanRun /\ lastTick.line # 0)
        => (lastTick.writeCalled <=> lastTick.entryChanged)

\* C2 amended: while the clipboard is enabled and writes succeed, a tick
\* writes to the clipboard exactly when an entry is active and its text
\* differs from the text of the entry last found active for the song (a
\* move between entries of equal text, or to no active entry, writes
\* nothing), and the write made is the only one of the tick and succeeds.
C2_WriteOnTextChange ==
    (lastTick.kind = "song" /\ lastTick.cleanRun)
        => /\ lastTick.writeCalled <=>
                  (lastTick.line # 0 /\ ~lastTick.textRepeats)
           /\ lastTick.writeCalled => (lastTick.writeOK /\ lastTick.emitted)

\* A tick moved to another entry with the same text and wrote nothing.
C2_Witness ==
    /\ lastTick.kind = "song" /\ lastTick.cleanRun
    /\ lastTick.sameSong /\ lastTick.entryChanged
    /\ lastTick.line # 0 /\ lastTick.textRepeats
    /\ ~lastTick.writeCalled

\* C3: a tick on which the detector reports an error leaves currentSongKey,
\* currentLyrics and lastLyricText cleared and emits nothing, and changes
\* nothing at all if no song was tracked.
C3_NoSampleReset ==
    [][ (TickStep /\ lastTick'.kind = "err")
          => /\ currentSongKey' = "" /\ currentLyrics' = Nil
             /\ lastLyricText' = ""
             /\ ~lastTick'.fetchCalled /\ ~lastTick'.writeCalled
             /\ ~lastTick'.emitted /\ ~lastTick'.notified
             /\ UNCHANGED <<lyricOffset, updateClipboard, cache, stopChan>>
             /\ currentSongKey = ""
                   => UNCHANGED <<currentSongKey, currentLyrics,
                                  lastLyricText>> ]_vars

\* A detection failure cleared a tracked song that had emitted a line.
C3_Witness ==
    /\ lastTick.kind = "err" /\ lastTick.wasTracked /\ lastTick.hadEmitted
    /\ currentSongKey = "" /\ lastLyricText = ""

\* C4: FetchLyrics is called only on a tick whose song differs from the one
\* the tick before it saw; when the fetch fails the song is tracked without
\* lyrics and nothing is emitted; and a tick for the song the previous tick
\* saw calls neither FetchLyrics nor the provider and keeps currentLyrics.
C4_OneFetchPerSongChange ==
    [][ TickStep
          => /\ lastTick'.fetchCalled
                   => (lastTick'.kind = "song" /\ ~lastTick'.sameSong)
             /\ (lastTick'.fetchCalled /\ ~lastTick'.fetchOK)
                   => /\ currentSongKey' =
                            SongKey(lastTick'.Artist, lastTick'.Title)
                      /\ currentLyrics' = Nil
                      /\ lastTick'.line = 0
                      /\ ~lastTick'.writeCalled /\ ~lastTick'.emitted
                      /\ ~lastTick'.notified
             /\ (lastTick'.kind = "song" /\ lastTick'.sameSong)
                   => /\ ~lastTick'.fetchCalled /\ ~lastTick'.contacted
                      /\ UNCHANGED <<currentLyrics, cache>> ]_vars

\* A tick for a song whose fetch had failed: still no lyrics, and no fetch.
C4_Witness ==
    /\ lastTick.kind = "song" /\ lastTick.sameSong
    /\ currentSongKey # "" /\ currentLyrics = Nil
    /\ ~lastTick.fetchCalled

\* C5: the first tick for another song, after a line was emitted for the
\* song before it, emits the line it finds active in the lyrics it obtained:
\* lastLyricText becomes that line's text and the callback is notified.
C5_SongChangeEmits ==
    (/\ lastTick.kind = "song" /\ lastTick.fetchOK
     /\ lastTick.wasTracked /\ lastTick.hadEmitted
     /\ lastTick.line # 0)
        => /\ lastTick.emitted /\ lastTick.notified
           /\ lastLyricText = LastTickText

\* C6: no result of detector.GetCurrentSong makes tick fault.
C6_NoTickFaults == crashed # "nil dereference"

\* C7: when the clipboard write of a tick fails, the line still counts as
\* emitted: lastLyricText is the line's text.
C7_FailedWriteKeepsEmission ==
    (lastTick.writeCalled /\ ~lastTick.writeOK)
        => (lastTick.emitted /\ lastLyricText = LastTickText)

\* C8: a second call of Stop does not fault.
C8_StopTwiceNoFault == crashed # "close of closed channel"

\* C9: no tick begins once Stop has closed stopChan.
C9_NoTickBeginsAfterStop == ~tickAfterStop

\* C10: on a sorted, non-empty timeline GetLineAtTime returns the last line
\* whose timestamp is at most the position, and none exactly when the
\* position is smaller than the first timestamp.
C10_LookupLastAtOrBefore ==
    lkDone =>
        LET L == lkLines.Lines
            S == { i \in 1..Len(L) : L[i].Time <= lkPos }
        IN  /\ lkResult \in 0..Len(L)
            /\ S = {} => lkResult = 0
            /\ S # {} => (lkResult \in S /\ \A i \in S : i <= lkResult)
            /\ lkResult = 0 <=> lkPos < L[1].Time

\* The position is a timestamp that two lines share, and a later line
\* exists: the lookup returned the second of the two.
C10_Witness ==
    /\ lkDone /\ Len(lkLines.Lines) = 3
    /\ lkLines.Lines[1].Time = lkPos /\ lkLines.Lines[2].Time = lkPos
    /\ lkLines.Lines[3].Time > lkPos
    /\ lkResult = 2

\* C11: the line a tick resolves for a sample at position p under the offset
\* d is the line a lookup at p + d resolves, that is the last line of the
\* song's timeline whose timestamp is at most p + d; nothing is clamped at
\* zero: when p + d is negative no line is active and nothing is emitted.
C11_OffsetShiftsPosition ==
    (lastTick.kind = "song" /\ currentLyrics # Nil)
        => LET L == currentLyrics.Lines
               q == lastTick.Position + lastTick.offset
               S == { i \in 1..Len(L) : L[i].Time <= q }
           IN  /\ S = {} => lastTick.line = 0
               /\ S # {} => (lastTick.line \in S
                                /\ \A i \in S : i <= lastTick.line)
               /\ q < 0 => /\ lastTick.line = 0
                            /\ ~lastTick.writeCalled /\ ~lastTick.emitted
                            /\ ~lastTick.notified

\* A sample at position 0 under a negative offset, in a song whose first
\* line is at 0: the tick found no line active.
C11_Witness ==
    /\ lastTick.kind = "song" /\ currentLyrics # Nil
    /\ lastTick.Position = 0 /\ lastTick.offset < 0
    /\ currentLyrics.Lines[1].Time = 0
    /\ lastTick.line = 0

\* C12: a tick takes its sample for the song it tracks (no reset, no fetch)
\* exactly when the sample's artist and title both equal those of the sample
\* the tracked song came from.
C12_SameSongIffPairEqual ==
    lastTick.kind = "song" => (~lastTick.fetchCalled <=> lastTick.sameSong)

\* C13: a tick whose sample reports IsPlaying = false leaves currentSongKey,
\* currentLyrics and lastLyricText cleared and emits nothing.
C13_PausedSampleClears ==
    (lastTick.kind = "song" /\ ~lastTick.IsPlaying)
        => /\ currentSongKey = "" /\ currentLyrics = Nil
           /\ lastLyricText = ""
           /\ ~lastTick.writeCalled /\ ~lastTick.emitted
           /\ ~lastTick.notified

\* C14: a tick that finds a line whose text differs from lastLyricText (the
\* empty string after a song change) assigns the text to lastLyricText and
\* notifies the callback, with the clipboard enabled or not; it calls Write
\* exactly when updateClipboard is true, and no other tick calls Write.
C14_EmissionIgnoresClipboardFlag ==
    [][ TickStep =>
          LET found == lastTick'.kind = "song" /\ lastTick'.line # 0
              text  == currentLyrics'.Lines[lastTick'.line].Text
              last0 == IF lastTick'.fetchCalled THEN "" ELSE lastLyricText
          IN  /\ (found /\ text # last0)
                    => /\ lastLyricText' = text
                       /\ lastTick'.emitted /\ lastTick'.notified
                       /\ lastTick'.writeCalled <=> updateClipboard
              /\ ~(found /\ text # last0) => ~lastTick'.writeCalled
              /\ ~updateClipboard => ~lastTick'.writeCalled ]_vars

\* C15: the offset and the flag a tick reads while a setter call runs are
\* those of before the call or those the call sets, whole: the tick behaves
\* as if the call came entirely before it or entirely after it.
C15_SetterAtomicForTick ==
    /\ rcTick.pc \in {"flag", "done"}
          => [hi |-> rcTick.hi, lo |-> rcTick.lo]
                 \in {rcCall.before, rcCall.offset}
    /\ rcTick.pc = "done" => rcTick.flag \in {rcCall.flagBefore, rcCall.enabled}

\* The texts the first n ticks of the stream emitted.
ScEmissions == [i \in 1..Len(scLog) |-> scLog[i].text]

PsCollected == Collect(Scanned(psDoc, 1), 1)

PsSurvives(line) ==
    /\ \E j \in 1..Len(line.items) : line.items[j].k = "ts"
    /\ \E j \in 1..Len(line.items) : line.items[j].k = "tx"

PsAtTime(lines, t) == SelectSeq(lines, LAMBDA l : l.Time = t)

\* C17: a timeline ParseLRC returns is non-empty and sorted ascending by
\* Time, and a lookup on it afterwards leaves it as it was returned.
C17_TimelineSortedAndKept ==
    [][ /\ (psPc' # "start" /\ psResult' # Nil)
              => /\ Len(psResult'.Lines) >= 1
                 /\ \A i \in 1..(Len(psResult'.Lines) - 1) :
                       psResult'.Lines[i].Time <= psResult'.Lines[i + 1].Time
        /\ psPc # "start" => psResult' = psResult ]_vars

\* A document whose timestamps are out of order was parsed and a lookup was
\* made on its timeline.
C17_Witness ==
    /\ psPc = "looked"
    /\ \E i \in 1..(Len(PsCollected) - 1) :
          PsCollected[i].Time > PsCollected[i + 1].Time
    /\ psLine # 0

\* C18: the lines of a timeline that share a timestamp are in their source
\* order, a lookup at that timestamp returns the one that is last in the
\* source, and the example document gives Hello, World, World (dup) with
\* "World (dup)" at 3.50 s.
C18_ParseOrderStable ==
    (psPc # "start" /\ psResult # Nil) =>
        LET R == psResult.Lines
            tied == PsAtTime(PsCollected, psPos)
        IN  /\ \A i \in 1..Len(R) :
                  PsAtTime(R, R[i].Time) = PsAtTime(PsCollected, R[i].Time)
            /\ (psPc = "looked" /\ Len(tied) > 0)
                  => R[psLine] = tied[Len(tied)]
            /\ psDoc = DocExample
                  => /\ R = << LyricLine(100, "Hello"), LyricLine(350, "World"),
                               LyricLine(350, "World (dup)") >>
                     /\ (psPc = "looked" /\ psPos = 350)
                           => R[psLine].Text = "World (dup)"

PsPairs ==
    UNION { { <<i, j>> : j \in { n \in 1..Len(psDoc[i].items) :
                                    /\ psDoc[i].items[n].k = "ts"
                                    /\ DisplayText(psDoc[i]) # "" } } :
               i \in 1..Len(psDoc) }

PsLineOf(p) ==
    LyricLine(Timestamp(psDoc[p[1]].items[p[2]]), DisplayText(psDoc[p[1]]))

-----------------------------------------------------------------------------
(* The lyrics cache as the tick loop uses it *)

\* The cache key of the song the most recent tick saw.
LastTickCacheKey(t) == getCacheKey(t.Artist, t.Title)

\* C21: while the process lives (and ClearCache, which nothing calls, is not
\* called) a successful FetchLyrics leaves the timeline it returned in the
\* cache, no step removes or replaces a cached timeline, and a FetchLyrics
\* for a cached song returns the cached timeline without contacting the
\* provider; so of the ticks A, B, A only the first fetches A.
C21_CacheHitNoEviction ==
    [][ crashed' = "none" =>
          /\ \A k \in CacheKeys : cache[k] # Nil => cache'[k] = cache[k]
          /\ (TickStep /\ lastTick'.fetchOK)
                => cache'[LastTickCacheKey(lastTick')] = currentLyrics'
          /\ (TickStep /\ lastTick'.fetchCalled
                 /\ cache[LastTickCacheKey(lastTick')] # Nil)
                => /\ ~lastTick'.contacted
                   /\ currentLyrics' = cache[LastTickCacheKey(lastTick')] ]_vars

\* A tick comes back to a song fetched earlier, with another song cached in
\* between, and gets its timeline without a provider contact.
C21_Witness ==
    /\ lastTick.kind = "song" /\ lastTick.fetchCalled /\ lastTick.fetchOK
    /\ ~lastTick.contacted
    /\ lastTick.Artist = "A" /\ lastTick.Title = "X"
    /\ cache[getCacheKey("A - B", "C")] # Nil

-----------------------------------------------------------------------------
(* Seeks, the settings and the shape of the tracker *)

\* C26: a tick that sees the tracked song at a smaller position than the tick
\* before it does not fault and resets nothing, finds the line active at the
\* new adjusted position, and emits it exactly when its text differs from
\* lastLyricText; with no line active it emits nothing and leaves
\* lastLyricText as it was.
C26_BackwardSeekOrdinary ==
    [][ (/\ TickStep
         /\ lastTick.kind = "song" /\ lastTick'.kind = "song"
         /\ lastTick'.sameSong /\ ~lastTick'.fetchCalled
         /\ lastTick'.Position < lastTick.Position)
          => LET line == IF currentLyrics = Nil THEN 0
                         ELSE GetLineAtTime(currentLyrics,
                                  AdjustedPosition(lastTick'.Position,
                                                   lyricOffset))
                 text == IF line = 0 THEN ""
                         ELSE currentLyrics.Lines[line].Text
             IN  /\ crashed' = "none"
                 /\ currentSongKey' = currentSongKey
                 /\ currentLyrics' = currentLyrics
                 /\ lastTick'.line = line
                 /\ lastTick'.emitted <=> (line # 0 /\ text # lastLyricText)
                 /\ lastLyricText' = IF line # 0 THEN text
                                     ELSE lastLyricText ]_vars

\* C27: only SetLyricOffset and SetUpdateClipboard change lyricOffset and
\* updateClipboard: every step of the loop (select, any tick) and Stop leave
\* both as they were, as long as the process lives.
C27_SettingsOnlyBySetters ==
    [][ (/\ crashed' = "none"
         /\ pc' # pc \/ stopChan' # stopChan \/ lastTick' # lastTick
               \/ currentSongKey' # currentSongKey)
          => UNCHANGED <<lyricOffset, updateClipboard>> ]_vars

\* A tick has gone idle from a tracked song under a non-default offset and
\* with the clipboard disabled.
C27_Witness ==
    /\ lastTick.kind = "err" /\ lastTick.wasTracked
    /\ lyricOffset = -100 /\ ~updateClipboard
    /\ stopChan = "closed"

\* C28: after every tick a timeline is held only for a tracked song, a text
\* is remembered only while a timeline is held, and the remembered text is
\* the text of a line of that timeline.
C28_StateShape ==
    /\ currentLyrics # Nil => currentSongKey # ""
    /\ lastLyricText # "" => currentLyrics # Nil
    /\ lastLyricText # ""
         => \E i \in 1..Len(currentLyrics.Lines) :
               currentLyrics.Lines[i].Text = lastLyricText

\* A tick has emitted the last line of a song: all three fields are set.
C28_Witness ==
    /\ lastTick.kind = "song" /\ lastTick.emitted
    /\ currentSongKey = SongKey("A - B", "C")
    /\ lastLyricText = "Bye"

\* C29: the first tick since a reset (song change or idle) that finds a line
\* emits it: the line's text is not empty, so it differs from the empty
\* lastLyricText, and lastLyricText becomes that text.
C29_FirstLineAfterResetEmitted ==
    [][ (/\ TickStep
         /\ lastTick'.kind = "song" /\ lastTick'.line # 0
         /\ lastTick'.fetchCalled \/ lastTick.activeText = "")
          => /\ currentLyrics'.Lines[lastTick'.line].Text # ""
             /\ lastTick'.emitted /\ lastTick'.notified
             /\ lastLyricText' = currentLyrics'.Lines[lastTick'.line].Text
      ]_vars

-----------------------------------------------------------------------------
(* Loading the configuration *)

\* A key is omitted or has one of the values.
Options(values) == {<<>>} \cup { <<v>> : v \in values }

\* The objects: each key omitted or with a value of its type.
ConfigObjects ==
    { [poll_interval_ms   |-> poll,
       lyric_offset_ms    |-> offset,
       enable_cache       |-> enableCache,
       update_clipboard   |-> update,
       demo_mode          |-> <<>>,
       demo_artist        |-> demoArtist,
       demo_title         |-> <<>>,
       start_minimized    |-> <<>>,
       show_notifications |-> showNotifications] :
         poll \in Options({0, 500}), offset \in Options({-500}),
         enableCache \in Options({FALSE}),
         update \in Options({TRUE, FALSE}),
         demoArtist \in Options({"Queen"}),
         showNotifications \in Options({TRUE}) }

ConfigFiles ==
    { [kind |-> k, obj |-> EmptyObject] :
         k \in {"missing", "unreadable", "invalid"} }
    \cup { [kind |-> "object", obj |-> obj] : obj \in ConfigObjects }

ConfigInit ==
    /\ OrchInit /\ LookupIdle /\ RaceIdle /\ ScenarioIdle /\ ParseIdle /\ CacheIdle /\ LoopIdle /\ TrayIdle
    /\ cfFile \in ConfigFiles
    /\ cfPc = "start"
    /\ cfConfig = NilConfig

\* cfg, err := config.Load(path)
ConfigLoad ==
    /\ cfPc = "start"
    /\ cfConfig' = Load(cfFile)
    /\ cfPc' = "loaded"
    /\ UNCHANGED cfFile

ConfigNext ==
    ConfigLoad /\ UNCHANGED <<orchVars, lkVars, rcVars, scVars, psVars, chVars, lpVars, trVars>>

SpecConfig == ConfigInit /\ [][ConfigNext]_vars

\* Whether the loaded configuration was given a value for the key.
Supplied(key) == cfFile.kind = "object" /\ cfFile.obj[key] # <<>>

\* C25: a configuration that Load returns has the default for each setting
\* the file does not supply, with no file or with a file that omits the key:
\* poll interval 300 ms, lyric offset 0, clipboard updates enabled.
C25_OmittedSettingsDefault ==
    (cfPc = "loaded" /\ ~cfConfig.isNil)
        => /\ ~Supplied("poll_interval_ms")
                => cfConfig.PollInterval = 300 * Millisecond
           /\ ~Supplied("lyric_offset_ms") => cfConfig.LyricOffset = 0
           /\ ~Supplied("update_clipboard") => cfConfig.UpdateClipboard

-----------------------------------------------------------------------------
(* The Fetcher under concurrent calls: FetchLyrics and ClearCache, statement *)
(* by statement, with f.mu and the run-time's check of concurrent map use.   *)

\* RLock that does not wait for the writer.
CanRLockAlways(mu) == TRUE

\* f.mu.RLock() returns once no goroutine holds the write lock.
CanRLock(mu) == mu.writer = "none"

\* f.mu.Lock() returns once no goroutine holds the lock in either mode.
CanLock(mu) == mu.writer = "none" /\ mu.readers = {}

\* FetchLyrics(artist, title) is called; "Check cache first": f.mu.RLock()
ChRLock(c, s) ==
    /\ chFault = "none" /\ chCall[c].pc = "idle"
    /\ CanRLock(chMu)
    /\ chMu' = [chMu EXCEPT !.readers = @ \cup {c}]
    /\ chCall' = [chCall EXCEPT
                    ![c] = [IdleCall EXCEPT !.pc = "rlocked",
                                            !.Artist = s.Artist,
                                            !.Title = s.Title]]
    /\ UNCHANGED <<chMap, chWriting, chFault>>

\* lyrics, found := f.cache[cacheKey].  The run-time ends the process when
\* it finds the map being written.
ChLookup(c) ==
    /\ chFault = "none" /\ chCall[c].pc = "rlocked"
    /\ IF chWriting
       THEN /\ chFault' = "concurrent map read and map write"
            /\ UNCHANGED chCall
       ELSE LET entry == chMap[getCacheKey(chCall[c].Artist, chCall[c].Title)]
            IN  /\ chCall' = [chCall EXCEPT ![c].pc = "looked",
                                            ![c].lyrics = entry,
                                            ![c].found = entry # Nil]
                /\ UNCHANGED chFault
    /\ UNCHANGED <<chMu, chMap, chWriting>>

\* f.mu.RUnlock(), then return lyrics, nil if found
ChRUnlock(c) ==
    /\ chFault = "none" /\ chCall[c].pc = "looked"
    /\ chMu' = [chMu EXCEPT !.readers = @ \ {c}]
    /\ chCall' = [chCall EXCEPT
                    ![c] = IF chCall[c].found THEN IdleCall
                           ELSE [@ EXCEPT !.pc = "fetch"]]
    /\ UNCHANGED <<chMap, chWriting, chFault>>

\* fetchFromSource: the exchange with the provider fails (return nil, err),
\* or ParseLRC starts on the document received.
ChFetch(c, net) ==
    /\ chFault = "none" /\ chCall[c].pc = "fetch"
    /\ chCall' = [chCall EXCEPT
                    ![c] = IF net = "fail" THEN IdleCall
                           ELSE [@ EXCEPT !.pc = "parse"]]
    /\ UNCHANGED <<chMu, chMap, chWriting, chFault>>

\* ParseLRC, one source line: lines = append(lines, ...)
ChParseLine(c) ==
    /\ chFault = "none" /\ chCall[c].pc = "parse"
    /\ LET doc == Provider(chCall[c].Artist, chCall[c].Title)
       IN  /\ chCall[c].n < Len(doc)
           /\ chCall' = [chCall EXCEPT
                           ![c].n = @ + 1,
                           ![c].lines = @ \o LinesOf(doc[chCall[c].n + 1])]
    /\ UNCHANGED <<chMu, chMap, chWriting, chFault>>

\* ParseLRC after its loop: an error without lines, else the sort and
\* return &SyncedLyrics{Lines: lines}.
ChParseEnd(c) ==
    /\ chFault = "none" /\ chCall[c].pc = "parse"
    /\ LET doc   == Provider(chCall[c].Artist, chCall[c].Title)
           lines == chCall[c].lines
       IN  /\ chCall[c].n = Len(doc)
           /\ chCall' = [chCall EXCEPT
                           ![c] = IF Len(lines) = 0 THEN IdleCall
                                  ELSE [@ EXCEPT
                                          !.pc = "lock",
                                          !.lyrics = SyncedLyrics(
                                              SortLines(lines, Len(lines)))]]
    /\ UNCHANGED <<chMu, chMap, chWriting, chFault>>

\* "Cache the result": f.mu.Lock()
ChLock(c) ==
    /\ chFault = "none" /\ chCall[c].pc = "lock"
    /\ CanLock(chMu)
    /\ chMu' = [chMu EXCEPT !.writer = c]
    /\ chCall' = [chCall EXCEPT ![c].pc = "locked"]
    /\ UNCHANGED <<chMap, chWriting, chFault>>

\* f.cache[cacheKey] = lyrics: the map assignment begins.
ChStoreBegin(c) ==
    /\ chFault = "none" /\ chCall[c].pc = "locked"
    /\ IF chWriting
       THEN /\ chFault' = "concurrent map writes"
            /\ UNCHANGED <<chWriting, chCall>>
       ELSE /\ chWriting' = TRUE
            /\ chCall' = [chCall EXCEPT ![c].pc = "storing"]
            /\ UNCHANGED chFault
    /\ UNCHANGED <<chMu, chMap>>

\* The map assignment ends.
ChStoreEnd(c) ==
    /\ chFault = "none" /\ chCall[c].pc = "storing"
    /\ chMap' = [chMap EXCEPT
                   ![getCacheKey(chCall[c].Artist, chCall[c].Title)] =
                       chCall[c].lyrics]
    /\ chWriting' = FALSE
    /\ chCall' = [chCall EXCEPT ![c].pc = "stored"]
    /\ UNCHANGED <<chMu, chFault>>

\* f.mu.Unlock(); return lyrics, nil
ChUnlock(c) ==
    /\ chFault = "none" /\ chCall[c].pc = "stored"
    /\ chMu' = [chMu EXCEPT !.writer = "none"]
    /\ chCall' = [chCall EXCEPT ![c] = IdleCall]
    /\ UNCHANGED <<chMap, chWriting, chFault>>

\* ClearCache: f.mu.Lock()
ClLock ==
    /\ chFault = "none" /\ chCall[Clearer].pc = "idle"
    /\ CanLock(chMu)
    /\ chMu' = [chMu EXCEPT !.writer = Clearer]
    /\ chCall' = [chCall EXCEPT ![Clearer].pc = "locked"]
    /\ UNCHANGED <<chMap, chWriting, chFault>>

\* f.cache = make(map[string]*lrc.SyncedLyrics)
ClClear ==
    /\ chFault = "none" /\ chCall[Clearer].pc = "locked"
    /\ chMap' = [k \in CacheKeys |-> Nil]
    /\ chCall' = [chCall EXCEPT ![Clearer].pc = "stored"]
    /\ UNCHANGED <<chMu, chWriting, chFault>>

\* The deferred f.mu.Unlock()
ClUnlock ==
    /\ chFault = "none" /\ chCall[Clearer].pc = "stored"
    /\ chMu' = [chMu EXCEPT !.writer = "none"]
    /\ chCall' = [chCall EXCEPT ![Clearer] = IdleCall]
    /\ UNCHANGED <<chMap, chWriting, chFault>>

CacheInit ==
    /\ OrchInit /\ LookupIdle /\ RaceIdle /\ ScenarioIdle /\ ParseIdle /\ ConfigIdle /\ LoopIdle /\ TrayIdle
    /\ CacheIdle

CacheNext ==
    \/ (\E c \in Fetchers : \E s \in Songs :
           ChRLock(c, s) /\ UNCHANGED <<orchVars, lkVars, rcVars, scVars, psVars, cfVars, lpVars, trVars>>)
    \/ (\E c \in Fetchers :
           ChLookup(c) /\ UNCHANGED <<orchVars, lkVars, rcVars, scVars, psVars, cfVars, lpVars, trVars>>)
    \/ (\E c \in Fetchers :
           ChRUnlock(c) /\ UNCHANGED <<orchVars, lkVars, rcVars, scVars, psVars, cfVars, lpVars, trVars>>)
    \/ (\E c \in Fetchers : \E net \in Outcomes :
           ChFetch(c, net) /\ UNCHANGED <<orchVars, lkVars, rcVars, scVars, psVars, cfVars, lpVars, trVars>>)
    \/ (\E c \in Fetchers :
           ChParseLine(c) /\ UNCHANGED <<orchVars, lkVars, rcVars, scVars, psVars, cfVars, lpVars, trVars>>)
    \/ (\E c \in Fetchers :
           ChParseEnd(c) /\ UNCHANGED <<orchVars, lkVars, rcVars, scVars, psVars, cfVars, lpVars, trVars>>)
    \/ (\E c \in Fetchers :
           ChLock(c) /\ UNCHANGED <<orchVars, lkVars, rcVars, scVars, psVars, cfVars, lpVars, trVars>>)
    \/ (\E c \in Fetchers :
           ChStoreBegin(c) /\ UNCHANGED <<orchVars, lkVars, rcVars, scVars, psVars, cfVars, lpVars, trVars>>)
    \/ (\E c \in Fetchers :
           ChStoreEnd(c) /\ UNCHANGED <<orchVars, lkVars, rcVars, scVars, psVars, cfVars, lpVars, trVars>>)
    \/ (\E c \in Fetchers :
           ChUnlock(c) /\ UNCHANGED <<orchVars, lkVars, rcVars, scVars, psVars, cfVars, lpVars, trVars>>)
    \/ (ClLock /\ UNCHANGED <<orchVars, lkVars, rcVars, scVars, psVars, cfVars, lpVars, trVars>>)
    \/ (ClClear /\ UNCHANGED <<orchVars, lkVars, rcVars, scVars, psVars, cfVars, lpVars, trVars>>)
    \/ (ClUnlock /\ UNCHANGED <<orchVars, lkVars, rcVars, scVars, psVars, cfVars, lpVars, trVars>>)

SpecCache == CacheInit /\ [][CacheNext]_vars

\* A timeline as ParseLRC returns it for one of the songs: all the lines of
\* the song's document, sorted, and at least one.
Complete(lyrics, artist, title) ==
    /\ lyrics = Parsed[Song(artist, title)]
    /\ Len(lyrics.Lines) > 0
    /\ IsSorted(lyrics.Lines)

\* C22: whatever the interleaving of FetchLyrics and ClearCache calls, the
\* run-time never finds the map used concurrently, every timeline in the
\* cache and every timeline a cache lookup returns is the complete, sorted,
\* non-empty timeline of its song, and a cached timeline is never changed:
\* its entry stays as it is until ClearCache drops it.
C22_PublishAfterBuild ==
    [][ /\ chFault' = "none"
        /\ \A s \in Songs :
             chMap'[getCacheKey(s.Artist, s.Title)] # Nil
                => Complete(chMap'[getCacheKey(s.Artist, s.Title)],
                            s.Artist, s.Title)
        /\ \A c \in Fetchers :
             (chCall'[c].pc = "looked" /\ chCall'[c].found)
                => Complete(chCall'[c].lyrics, chCall'[c].Artist,
                            chCall'[c].Title)
        /\ \A k \in CacheKeys :
             chMap[k] # Nil => chMap'[k] \in {chMap[k], Nil} ]_vars

\* One goroutine gets a song's timeline from the cache while the other is
\* in the middle of building a timeline for the same song.
C22_Witness ==
    /\ chCall["f1"].pc = "looked" /\ chCall["f1"].found
    /\ chCall["f2"].pc = "parse" /\ chCall["f2"].n = 2
    /\ chCall["f2"].Artist = chCall["f1"].Artist
    /\ chCall["f2"].Title = chCall["f1"].Title

-----------------------------------------------------------------------------
(* Start's loop and tick statement by statement, with the ticker, the HTTP  *)
(* client's timeout, and the tray goroutine that calls GetCurrentStatus.    *)

\* The client that never gives up on a request: a Timeout of zero.
NoClientTimeout == 0 * 100

\* NewFetcher: http.Client{Timeout: 10 * time.Second}, in centiseconds
ClientTimeout == 10 * 100

\* The loop if it started each tick in a goroutine of its own.
TickCallAsync == "select"

\* case <-ticker.C: o.tick() is a call: the loop goroutine is inside tick
\* until tick returns.
TickCall == "tick"

\* The samples of the loop specifications.
LoopSamples ==
    {ErrResult} \cup
    { d \in SongResults :
        d.IsPlaying /\ d.Position \in {120, 350}
        /\ Song(d.Artist, d.Title) \in {Song("A", "X"), Song("A - B", "C")} }

\* What the loop specifications leave alone of the orchestrator.
lpFrame == <<lyricOffset, stopChan, detectorClosed, crashed, tickAfterStop,
             lastTick>>

\* The ticker sends on ticker.C; the channel holds one tick, and a tick that
\* finds it full is dropped.
LpTimerFire ==
    /\ crashed = "none" /\ pc # "exited"
    /\ lpTimer = 0
    /\ lpTimer' = 1
    /\ UNCHANGED <<currentSongKey, currentLyrics, lastLyricText, cache, pc,
                   updateClipboard, lpPhase, lpRunning, lpSample, lpLine,
                   lpTimedOut>>

\* select takes case <-ticker.C and calls o.tick().
LpSelectTick ==
    /\ crashed = "none" /\ pc = "select"
    /\ lpTimer = 1
    /\ lpTimer' = 0
    /\ pc' = TickCall
    /\ lpPhase' = "detect"
    /\ lpRunning' = lpRunning + 1
    /\ UNCHANGED <<currentSongKey, currentLyrics, lastLyricText, cache,
                   updateClipboard, lpSample, lpLine, lpTimedOut>>

\* tick returns.
LpReturn ==
    /\ pc' = "select"
    /\ lpPhase' = "none"
    /\ lpRunning' = lpRunning - 1
    /\ lpSample' = ErrResult
    /\ lpLine' = 0

\* songInfo, err := o.detector.GetCurrentSong(), up to the song change:
\* the error branch, or o.currentSongKey = songKey for a new song.
LpDetect(d) ==
    /\ lpPhase = "detect"
    /\ IF d.kind = "err"
       THEN /\ LET st == ClearState(currentSongKey, currentLyrics,
                                    lastLyricText)
               IN  /\ currentSongKey' = st.key
                   /\ currentLyrics' = st.lyrics
                   /\ lastLyricText' = st.last
            /\ LpReturn
       ELSE /\ lpSample' = d
            /\ IF IsNewSong(SongKey(d.Artist, d.Title), currentSongKey,
                            currentLyrics)
               THEN /\ currentSongKey' = SongKey(d.Artist, d.Title)
                    /\ lpPhase' = "key"
               ELSE /\ lpPhase' = "lookup"
                    /\ UNCHANGED currentSongKey
            /\ UNCHANGED <<currentLyrics, lastLyricText, pc, lpRunning,
                           lpLine>>
    /\ UNCHANGED <<cache, updateClipboard, lpTimer, lpTimedOut>>

\* o.lastLyricText = "" and the call of FetchLyrics: a cached timeline is
\* returned at once, else the request goes out.
LpClearLast ==
    /\ lpPhase = "key"
    /\ lastLyricText' = ""
    /\ lpTimedOut' = FALSE
    /\ LET entry == cache[getCacheKey(lpSample.Artist, lpSample.Title)]
       IN  IF entry # Nil
           THEN /\ currentLyrics' = entry
                /\ lpPhase' = "lookup"
           ELSE /\ lpPhase' = "fetch"
                /\ UNCHANGED currentLyrics
    /\ UNCHANGED <<currentSongKey, cache, pc, updateClipboard, lpTimer,
                   lpRunning, lpSample, lpLine>>

\* FetchLyrics returns with the outcome net of the exchange.
LpFetchReturn(net) ==
    LET fetch == FetchLyrics(cache, lpSample.Artist, lpSample.Title, net)
    IN  /\ cache' = fetch.cache
        /\ currentLyrics' = fetch.lyrics
        /\ IF fetch.lyrics = Nil
           THEN LpReturn
           ELSE /\ lpPhase' = "lookup"
                /\ UNCHANGED <<pc, lpRunning, lpSample, lpLine>>
        /\ UNCHANGED <<currentSongKey, lastLyricText, updateClipboard,
                       lpTimer>>

\* The provider answers.
LpFetchAnswer(net) ==
    /\ lpPhase = "fetch"
    /\ LpFetchReturn(net)
    /\ lpTimedOut' = FALSE

\* The provider has not answered when the client's timeout expires: the
\* request fails.
LpFetchTimeout ==
    /\ lpPhase = "fetch"
    /\ ClientTimeout > 0
    /\ LpFetchReturn("fail")
    /\ lpTimedOut' = TRUE

\* From "If we don't have lyrics" to the emission without a clipboard write.
LpLookup ==
    /\ lpPhase = "lookup"
    /\ LET line == IF currentLyrics = Nil THEN 0
                   ELSE GetLineAtTime(currentLyrics,
                            AdjustedPosition(lpSample.Position, lyricOffset))
           text == IF line = 0 THEN "" ELSE currentLyrics.Lines[line].Text
       IN  IF line # 0 /\ LyricChanged(text, lastLyricText)
           THEN IF updateClipboard
                THEN /\ lpPhase' = "write"
                     /\ lpLine' = line
                     /\ UNCHANGED <<lastLyricText, pc, lpRunning, lpSample>>
                ELSE /\ lastLyricText' = text
                     /\ LpReturn
           ELSE /\ LpReturn
                /\ UNCHANGED lastLyricText
    /\ UNCHANGED <<currentSongKey, currentLyrics, cache, updateClipboard,
                   lpTimer, lpTimedOut>>

\* o.clipboardMgr.Write returns: the early return on an error, else
\* o.lastLyricText = currentLine.Text and the callback.
LpWrite(clip) ==
    /\ lpPhase = "write"
    /\ lastLyricText' = IF clip = "fail" THEN lastLyricText
                        ELSE currentLyrics.Lines[lpLine].Text
    /\ LpReturn
    /\ UNCHANGED <<currentSongKey, currentLyrics, cache, updateClipboard,
                   lpTimer, lpTimedOut>>

\* GetCurrentStatus: if o.currentSongKey == ""
StCheckKey ==
    /\ crashed = "none" /\ stPc = "idle"
    /\ IF currentSongKey = ""
       THEN /\ stOut' = "No song detected"
            /\ UNCHANGED stPc
       ELSE /\ stPc' = "checkLast"
            /\ UNCHANGED stOut
    /\ UNCHANGED stKey

\* if o.lastLyricText == "": "Playing: " and the key as it is now
StCheckLast ==
    /\ stPc = "checkLast"
    /\ IF lastLyricText = ""
       THEN /\ stOut' = "Playing: " \o currentSongKey
            /\ stPc' = "idle"
       ELSE /\ stPc' = "readKey"
            /\ UNCHANGED stOut
    /\ UNCHANGED stKey

\* The first argument of fmt.Sprintf("%s: %s", ...): o.currentSongKey
StReadKey ==
    /\ stPc = "readKey"
    /\ stKey' = currentSongKey
    /\ stPc' = "readLast"
    /\ UNCHANGED stOut

\* The second argument, o.lastLyricText, and the return.
StReadLast ==
    /\ stPc = "readLast"
    /\ stOut' = stKey \o ": " \o lastLyricText
    /\ stKey' = ""
    /\ stPc' = "idle"

trackerVars == <<currentSongKey, currentLyrics, lastLyricText>>

loopVars == <<lpTimer, lpPhase, lpRunning, lpSample, lpLine, lpTimedOut>>

statusVars == <<stPc, stKey, stOut>>

othersOfLoop == <<lkVars, rcVars, scVars, psVars, cfVars, chVars, trVars>>

LoopInit ==
    /\ OrchInit /\ LookupIdle /\ RaceIdle /\ ScenarioIdle /\ ParseIdle /\ ConfigIdle /\ CacheIdle /\ TrayIdle
    /\ LoopIdle
    /\ lyricOffset = 0

\* The steps of the loop goroutine that need nothing but the goroutine to
\* run, and the expiry of the client's timeout.
LoopStep ==
    \/ (LpSelectTick /\ UNCHANGED <<lpFrame, statusVars, othersOfLoop>>)
    \/ (\E d \in LoopSamples :
           LpDetect(d) /\ UNCHANGED <<lpFrame, statusVars, othersOfLoop>>)
    \/ (LpClearLast /\ UNCHANGED <<lpFrame, statusVars, othersOfLoop>>)
    \/ (LpFetchTimeout /\ UNCHANGED <<lpFrame, statusVars, othersOfLoop>>)
    \/ (LpLookup /\ UNCHANGED <<lpFrame, statusVars, othersOfLoop>>)
    \/ (\E clip \in Outcomes :
           LpWrite(clip) /\ UNCHANGED <<lpFrame, statusVars, othersOfLoop>>)

TimerStep == LpTimerFire /\ UNCHANGED <<lpFrame, statusVars, othersOfLoop>>

AnswerStep ==
    \E net \in Outcomes :
       LpFetchAnswer(net) /\ UNCHANGED <<lpFrame, statusVars, othersOfLoop>>

LoopNext ==
    \/ LoopStep
    \/ TimerStep
    \/ AnswerStep

\* The loop alone.  The goroutine of the loop is scheduled whenever it can
\* run, the ticker keeps ticking and the timer of the client's timeout
\* fires; nothing makes the provider answer.
SpecLoopFair ==
    /\ LoopInit /\ [][LoopNext]_vars
    /\ WF_vars(LoopStep)
    /\ WF_vars(TimerStep)

\* The tray goroutine: GetCurrentStatus every two seconds.
StatusStep ==
    \/ (StCheckKey /\ UNCHANGED <<orchVars, loopVars, othersOfLoop>>)
    \/ (StCheckLast /\ UNCHANGED <<orchVars, loopVars, othersOfLoop>>)
    \/ (StReadKey /\ UNCHANGED <<orchVars, loopVars, othersOfLoop>>)
    \/ (StReadLast /\ UNCHANGED <<orchVars, loopVars, othersOfLoop>>)

StatusNext ==
    \/ LoopStep
    \/ TimerStep
    \/ AnswerStep
    \/ StatusStep

SpecStatus == LoopInit /\ [][StatusNext]_vars

\* The songs of the loop specifications and the texts of their timelines.
LoopSongs == { Song(d.Artist, d.Title) : d \in LoopSamples \ {ErrResult} }

TextsOf(s) == { Parsed[s].Lines[i].Text : i \in 1..Len(Parsed[s].Lines) }

\* C23: at most one execution of tick is in progress at any time: a tick
\* starts only when none is running, however long its fetch and its
\* clipboard write take and whatever waits in ticker.C; and every change of
\* currentSongKey, currentLyrics or lastLyricText is a step of that one
\* execution.
C23_TicksNeverOverlap ==
    [][ /\ lpRunning' <= 1
        /\ lpRunning' > lpRunning => (lpPhase = "none" /\ lpRunning = 0)
        /\ trackerVars' # trackerVars
             => (pc = "tick" /\ lpPhase # "none" /\ lpRunning = 1
                 /\ statusVars' = statusVars) ]_vars

\* The ticker has delivered the next tick while the running tick waits for
\* the provider and the tray goroutine is inside GetCurrentStatus.
C23_Witness ==
    /\ lpPhase = "fetch" /\ lpTimer = 1 /\ lpRunning = 1
    /\ stPc = "readKey"

\* C24: a tick that waits for the provider returns, and a later tick
\* starts; when the client's timeout ends the fetch, the tick returns with
\* the song tracked and no lyrics.
C24_StalledFetchEnds ==
    /\ (lpPhase = "fetch") ~> (lpPhase = "none" /\ pc = "select")
    /\ (lpPhase = "fetch") ~> (lpPhase = "detect")
    /\ [][ (lpTimedOut' /\ ~lpTimedOut)
             => /\ lpPhase = "fetch" /\ lpPhase' = "none" /\ pc' = "select"
                /\ currentSongKey' = SongKey(lpSample.Artist, lpSample.Title)
                /\ currentLyrics' = Nil /\ lastLyricText' = ""
                /\ cache' = cache ]_vars

\* After a fetch that the timeout ended, the song is tracked without lyrics
\* and the next tick has started.
C24_Witness ==
    /\ lpTimedOut /\ lpPhase = "detect"
    /\ currentSongKey # "" /\ currentLyrics = Nil

\* C30: a status of the form "<song>: <lyric>" that GetCurrentStatus returns
\* pairs a song with the text of a line of that song's timeline.
C30_StatusPairConsistent ==
    \A s \in LoopSongs : \A t \in UNION { TextsOf(x) : x \in LoopSongs } :
       stOut = SongKey(s.Artist, s.Title) \o ": " \o t => t \in TextsOf(s)

-----------------------------------------------------------------------------
(* Failed fetches and the cache *)

\* C34: a FetchLyrics that fails leaves the cache as it was, every timeline
\* in the cache is what ParseLRC returned for its song, and a FetchLyrics
\* for a song that is not in the cache contacts the provider; so after A's
\* fetch failed, the ticks B, A fetch A from the provider again.
C34_FailuresNotCached ==
    [][ crashed' = "none" =>
          /\ (TickStep /\ lastTick'.fetchCalled /\ ~lastTick'.fetchOK)
                => cache' = cache
          /\ \A s \in Songs :
                cache'[getCacheKey(s.Artist, s.Title)] # Nil
                   => /\ Parsed[s] # Nil
                      /\ cache'[getCacheKey(s.Artist, s.Title)] = Parsed[s]
          /\ (TickStep /\ lastTick'.fetchCalled
                 /\ cache[LastTickCacheKey(lastTick')] = Nil)
                => lastTick'.contacted ]_vars

\* The fetch for a song has just failed while another song is cached: the
\* cache holds that other song only.
C34_Witness ==
    /\ lastTick.kind = "song" /\ lastTick.fetchCalled /\ lastTick.contacted
    /\ ~lastTick.fetchOK
    /\ lastTick.Artist = "A" /\ lastTick.Title = "X"
    /\ cache[getCacheKey("A", "X")] = Nil
    /\ cache[getCacheKey("A - B", "C")] # Nil

-----------------------------------------------------------------------------
(* Disabling and re-enabling the clipboard *)

\* C33: with the clipboard disabled a tick that finds a new text still
\* assigns it to lastLyricText, without a write; a change of
\* updateClipboard leaves lastLyricText as it is; and a tick of the tracked
\* song that finds the text lastLyricText already holds writes nothing.  So
\* after re-enabling, the line that is active is not written, and the next
\* write is for the first text that differs (or follows a reset).
C33_ReenableWritesNothing ==
    [][ /\ (crashed' = "none" /\ updateClipboard' # updateClipboard)
              => (lastLyricText' = lastLyricText /\ lastTick' = lastTick)
        /\ (TickStep /\ lastTick'.kind = "song" /\ lastTick'.line # 0)
              => LET text  == currentLyrics'.Lines[lastTick'.line].Text
                     last0 == IF lastTick'.fetchCalled THEN ""
                              ELSE lastLyricText
                 IN  /\ (~updateClipboard /\ text # last0)
                          => (lastLyricText' = text /\ ~lastTick'.writeCalled)
                     /\ text = last0
                          => (~lastTick'.writeCalled /\ ~lastTick'.emitted
                              /\ lastLyricText' = lastLyricText) ]_vars

\* The last tick emitted a line with the clipboard disabled, and the
\* clipboard has been enabled since: lastLyricText holds the active line.
C33_Witness ==
    /\ lastTick.kind = "song" /\ lastTick.emitted /\ ~lastTick.writeCalled
    /\ updateClipboard
    /\ lastLyricText = LastTickText

-----------------------------------------------------------------------------
(* The tray menu.  handleMenuEvents serves one click at a time: a click on *)
(* the clipboard item runs toggleClipboard, a click on an offset item      *)
(* setOffset, a click on Quit ends the handler and, through onExit, stops  *)
(* the orchestrator.  The orchestrator's settings start as its Config      *)
(* gave them; the menu starts as onReady built it.                         *)

\* The clicks on the clipboard item that are followed.
MaxClicks == 5

othersOfTray == <<lkVars, rcVars, scVars, psVars, cfVars, chVars, lpVars>>

\* toggleClipboard: the branch is chosen by the item's check mark, not by
\* the orchestrator's flag.
toggleClipboard ==
    /\ stopChan = "open"
    /\ trClicks < MaxClicks
    /\ IF trChecked
       THEN /\ trChecked' = FALSE
            /\ trTitle' = TitleUnchecked
            /\ SetUpdateClipboard(FALSE)
       ELSE /\ trChecked' = TRUE
            /\ trTitle' = TitleChecked
            /\ SetUpdateClipboard(TRUE)
    /\ trClicks' = trClicks + 1
    /\ UNCHANGED <<trOffsetItems, trCurrentOffset>>

\* setOffset: every offset item is unchecked, the item of the new offset is
\* checked, and the offset is handed to the orchestrator.
setOffset(offset) ==
    /\ stopChan = "open"
    /\ trOffsetItems' = IF offset \in TrayOffsets THEN {offset} ELSE {}
    /\ trCurrentOffset' = offset
    /\ SetLyricOffset(offset)
    /\ UNCHANGED <<trChecked, trTitle, trClicks>>

\* A click on Quit: systray.Quit, then onExit calls orchestrator.Stop.
onExit ==
    /\ stopChan = "open"
    /\ Stop
    /\ UNCHANGED trVars

TrayInit ==
    /\ OrchInit /\ LookupIdle /\ RaceIdle /\ ScenarioIdle /\ ParseIdle /\ ConfigIdle /\ CacheIdle /\ LoopIdle /\ TrayIdle

TrayNext ==
    \/ (toggleClipboard /\ UNCHANGED othersOfTray)
    \/ (\E offset \in TrayOffsets : setOffset(offset) /\ UNCHANGED othersOfTray)
    \/ (onExit /\ UNCHANGED othersOfTray)

SpecTray == TrayInit /\ [][TrayNext]_vars

\* C32: every click on the clipboard item inverts the orchestrator's
\* updateClipboard flag, and after the click the item's check mark equals the
\* flag.  Violated: with UpdateClipboard = true in the Config the item starts
\* unchecked, so the first click takes the branch that checks the item and
\* calls SetUpdateClipboard(true); the flag stays true.
C32_ClickInvertsFlag ==
    [][ trClicks' # trClicks
          => /\ updateClipboard' = ~updateClipboard
             /\ trChecked' = updateClipboard' ]_vars

-----------------------------------------------------------------------------
(* The detector's lifetime *)

\* C31: the detector is never used after it was released.  No run of tick
\* (which begins with detector.GetCurrentSong) happens once Stop has called
\* detector.Close, and Stop does not call Close while the loop is inside a
\* tick.  Violated: Stop runs on the caller's goroutine and does not wait
\* for the loop, so it closes the detector under a tick in flight, and the
\* select may still take a ready tick after stopChan was closed.  Steps that
\* end the process in a panic are left out.
C31_DetectorNotUsedAfterClose ==
    [][ crashed' = "none" =>
          /\ TickStep => ~detectorClosed
          /\ (~detectorClosed /\ detectorClosed') => pc # "tick" ]_vars

====
